---- MODULE Spec2Model ----
(***************************************************************************)
(* A model of the binary tree container of btree.hpp (BinaryLeaf<int>) and *)
(* of the program of main.cpp that generates or loads a tree, searches the *)
(* minimum and maximum subtree ratio and writes the tree out.              *)
(*                                                                         *)
(* Nodes live in a heap: a sequence of records indexed by the node's       *)
(* address (1, 2, ...), address 0 being nullptr.  Text lines are sequences *)
(* of one-character strings, so that writing an int and parsing it back    *)
(* are the two different computations they are in the program.             *)
(***************************************************************************)
EXTENDS Integers, Sequences, FiniteSets, TLC

VARIABLES
    pc,               \* position of the program / of the API client
    heap,             \* every BinaryLeaf allocated so far
    tree,             \* main's `tree` / GenerateTree's `result`
    original,         \* the tree that was serialized, kept while it is read back
    maxLeaves,        \* GenerateTree's budget
    leavesGenerated,  \* GenerateTree's counter
    toGenerate,       \* GenerateTree's queue of requests
    toPopulate,       \* Deserialize's queue of requests
    stream,           \* the input stream Deserialize reads
    out,              \* the lines Serialize wrote
    outputOpen,       \* main's `output.is_open()`
    call,             \* the API client's last call of a member function
    result,           \* what that call returned (Walk: the nodes visited)
    search,           \* minRatio, minRatioSubtree, maxRatio, maxRatioSubtree of main
    destructors,      \* the calls of ~BinaryLeaf in progress, the innermost last
    deleted,          \* the nodes whose memory was freed, in the order of freeing
    faults            \* the undefined behaviour met so far

vars ==
    <<pc, heap, tree, original, maxLeaves, leavesGenerated, toGenerate,
      toPopulate, stream, out, outputOpen, call, result, search,
                   destructors, deleted, faults>>

----------------------------------------------------------------------------
(* Program constants. *)

NULL ==
    0

ROOT ==
    0

LEFT ==
    1

RIGHT ==
    2

\* mDepth is a uint16_t: it is computed modulo 2^16.
DepthModulus ==
    65536

\* uint16_t skipDeep = -1
NoSkipDeep ==
    65535

\* at most 32 tabs in pretty mode
MaxTabs ==
    32

\* rand() % 255
RandModulus ==
    255

\* main: double minRatio = 99999999.0
MinRatioSeed ==
    99999999

\* main: double maxRatio = 0.0
MaxRatioSeed ==
    0

----------------------------------------------------------------------------
(* Bounds of the model. *)

\* the largest budget entered for GenerateTree
MaxLeaves ==
    5

\* the longest input file, in lines
MaxLines ==
    4

\* the largest tree built through SetLeftChild / SetRightChild with values
MaxApiNodes ==
    4

\* the largest tree built for the traversal alone
MaxWalkNodes ==
    7

----------------------------------------------------------------------------
(* Text: operator<< of an int, std::stoi, std::getline. *)

Digit ==
    <<"0", "1", "2", "3", "4", "5", "6", "7", "8", "9">>

DigitChars ==
    {Digit[i] : i \in 1..10}

DigitValue(c) ==
    CHOOSE d \in 0..9 : Digit[d + 1] = c

Whitespace ==
    {" ", "\t"}

RECURSIVE DigitsOf(_)
DigitsOf(n) ==
    IF n < 10 THEN <<Digit[n + 1]>>
    ELSE Append(DigitsOf(n \div 10), Digit[(n % 10) + 1])

\* stream << int : decimal digits, a leading "-" for a negative value
IntToText(v) ==
    IF v < 0 THEN <<"-">> \o DigitsOf(0 - v) ELSE DigitsOf(v)

RECURSIVE SkipSpace(_)
SkipSpace(s) ==
    IF Len(s) > 0 /\ Head(s) \in Whitespace THEN SkipSpace(Tail(s)) ELSE s

\* the longest prefix of digits of s: [value, count]
RECURSIVE ReadDigits(_, _, _)
ReadDigits(s, value, count) ==
    IF Len(s) > 0 /\ Head(s) \in DigitChars
    THEN ReadDigits(Tail(s), 10 * value + DigitValue(Head(s)), count + 1)
    ELSE [value |-> value, count |-> count]

\* a parser that never throws
StoIOrZero(serialized) ==
    [ok |-> TRUE, value |-> 0]

\* std::stoi: leading whitespace, an optional sign, digits; what follows the
\* digits is ignored; no digit at all throws std::invalid_argument.
StoI(serialized) ==
    LET t == SkipSpace(serialized)
        signed == Len(t) > 0 /\ Head(t) \in {"-", "+"}
        negative == Len(t) > 0 /\ Head(t) = "-"
        r == ReadDigits(IF signed THEN Tail(t) ELSE t, 0, 0)
    IN  [ok |-> r.count > 0,
         value |-> IF negative THEN 0 - r.value ELSE r.value]

----------------------------------------------------------------------------
(* BinaryLeaf: construction and attachment. *)

\* BinaryLeaf(T value)
BinaryLeaf(value) ==
    [mValue |-> value, mDepth |-> 0, mDirection |-> ROOT,
     mRight |-> NULL, mLeft |-> NULL]

\* new BinaryLeaf<int>(value): the heap with the node, at address Len(h) + 1
New(h, value) ==
    Append(h, BinaryLeaf(value))

\* the depth of the parent, not incremented
ChildDepthSame(h, this) ==
    h[this].mDepth

\* mDepth + 1, stored into a uint16_t
ChildDepth(h, this) ==
    (h[this].mDepth + 1) % DepthModulus

SetLeftChild(h, this, leaf) ==
    [h EXCEPT ![this].mLeft = leaf,
              ![leaf].mDepth = ChildDepth(h, this),
              ![leaf].mDirection = LEFT]

SetRightChild(h, this, leaf) ==
    [h EXCEPT ![this].mRight = leaf,
              ![leaf].mDepth = ChildDepth(h, this),
              ![leaf].mDirection = RIGHT]

----------------------------------------------------------------------------
(* Walk: the breadth-first traversal.  The walker is given by the set of   *)
(* nodes on which it returns true (stop); the result is the sequence of    *)
(* nodes the walker was called on.                                         *)

PushIf(collected, leaf) ==
    IF leaf # NULL THEN Append(collected, leaf) ELSE collected

\* the children pushed in the other order
PushChildrenLeftFirst(h, collected, leaf) ==
    PushIf(PushIf(collected, h[leaf].mLeft), h[leaf].mRight)

\* lines 174-182: the right child is pushed before the left child
PushChildren(h, collected, leaf) ==
    PushIf(PushIf(collected, h[leaf].mRight), h[leaf].mLeft)

\* lines 148-163: the queue Walk starts from
WalkSeed(h, this, includeSelf) ==
    IF includeSelf THEN <<this>>
    ELSE PushIf(PushIf(<<>>, h[this].mLeft), h[this].mRight)

\* the walker's answer ignored
ShouldStopNever(leaf, stops) ==
    FALSE

\* lines 185-191: the walker's answer ends the loop
ShouldStop(leaf, stops) ==
    leaf \in stops

\* lines 166-192: the loop, with the nodes visited so far
RECURSIVE WalkLoop(_, _, _, _)
WalkLoop(h, collected, stops, visited) ==
    IF Len(collected) = 0 THEN visited
    ELSE LET leaf == Head(collected)
             rest == PushChildren(h, Tail(collected), leaf)
         IN  IF ShouldStop(leaf, stops) THEN Append(visited, leaf)
             ELSE WalkLoop(h, rest, stops, Append(visited, leaf))

Walk(h, this, stops, includeSelf) ==
    WalkLoop(h, WalkSeed(h, this, includeSelf), stops, <<>>)

\* the nodes of the heap
Leaves(h) ==
    1..Len(h)

----------------------------------------------------------------------------
(* Serialize. *)

Repeat(c, n) ==
    [i \in 1..n |-> c]

\* lines 333-339: the number of tabs, a uint16_t
TabDepth(leaf) ==
    LET capped == IF leaf.mDepth < MaxTabs THEN leaf.mDepth ELSE MaxTabs
    IN  IF leaf.mDirection = LEFT
        THEN (capped + DepthModulus - 1) % DepthModulus
        ELSE capped

\* lines 330-352: the line written for a node
SerializedLine(leaf, pretty) ==
    IF pretty
    THEN Repeat("\t", TabDepth(leaf)) \o IntToText(leaf.mDepth) \o <<":", " ">>
         \o IntToText(leaf.mValue)
    ELSE IntToText(leaf.mValue)

TruncationMarker ==
    <<".", ".", ".">>

\* the limit reached, not exceeded
DeepAs(leaf, skipDeep) ==
    skipDeep # 0 - 1 /\ leaf.mDepth >= skipDeep

\* line 355: skipDeep is a uint16_t, promoted to int for both comparisons
DeeperThan(leaf, skipDeep) ==
    skipDeep # 0 - 1 /\ leaf.mDepth > skipDeep

RECURSIVE SerializedLines(_, _, _, _)
SerializedLines(h, visited, skipDeep, pretty) ==
    IF Len(visited) = 0 THEN <<>>
    ELSE LET leaf == h[Head(visited)]
         IN  <<SerializedLine(leaf, pretty)>>
             \o (IF DeeperThan(leaf, skipDeep) THEN <<TruncationMarker>> ELSE <<>>)
             \o SerializedLines(h, Tail(visited), skipDeep, pretty)

\* the lines Serialize writes to the stream
Serialize(h, this, skipDeep, pretty) ==
    LET stops == {n \in Leaves(h) : DeeperThan(h[n], skipDeep)}
    IN  SerializedLines(h, Walk(h, this, stops, TRUE), skipDeep, pretty)

----------------------------------------------------------------------------
(* The statistic: GetWeightSumChildrenRatio and the min/max search.  A     *)
(* double is modelled by the fraction it was computed from.                *)

Max(a, b) ==
    IF a > b THEN a ELSE b

\* the comparison turned around
LessReversed(a, b) ==
    b.num * a.den < a.num * b.den

\* a < b on doubles
Less(a, b) ==
    a.num * b.den < b.num * a.den

\* the value alone, the depth forgotten
WeightOfValue(leaf) ==
    leaf.mValue

\* leaf->mDepth * leaf->mValue
Weight(leaf) ==
    leaf.mDepth * leaf.mValue

RECURSIVE WeightSum(_, _)
WeightSum(h, visited) ==
    IF Len(visited) = 0 THEN 0
    ELSE Weight(h[Head(visited)]) + WeightSum(h, Tail(visited))

GetWeightSumChildrenRatio(h, this) ==
    LET visited == Walk(h, this, {}, FALSE)
        children == Max(1, Len(visited))
        weightSum == Weight(h[this]) + WeightSum(h, visited)
    IN  [num |-> weightSum, den |-> children]

\* lines 299-313: the walker of the search
MinMaxVisit(h, acc, leaf) ==
    LET r == GetWeightSumChildrenRatio(h, leaf)
        m == IF Less(r, acc.outputMin)
             THEN [acc EXCEPT !.outputMin = r, !.outputMinHolder = leaf]
             ELSE acc
    IN  IF Less(m.outputMax, r)
        THEN [m EXCEPT !.outputMax = r, !.outputMaxHolder = leaf]
        ELSE m

RECURSIVE MinMaxFold(_, _, _)
MinMaxFold(h, visited, acc) ==
    IF Len(visited) = 0 THEN acc
    ELSE MinMaxFold(h, Tail(visited), MinMaxVisit(h, acc, Head(visited)))

GetMinMaxWeightSumChildrenRatio(h, this, acc) ==
    MinMaxFold(h, Walk(h, this, {}, TRUE), acc)

\* line 299: the calls of GetWeightSumChildrenRatio the search makes, in order
RatiosComputed(h, this) ==
    LET visited == Walk(h, this, {}, TRUE)
    IN  [i \in 1..Len(visited) |->
            [leaf |-> visited[i], ratio |-> GetWeightSumChildrenRatio(h, visited[i])]]

\* main, lines 126-130: the accumulators as the caller seeds them
SearchSeeds ==
    [outputMin |-> [num |-> MinRatioSeed, den |-> 1], outputMinHolder |-> NULL,
     outputMax |-> [num |-> MaxRatioSeed, den |-> 1], outputMaxHolder |-> NULL]

----------------------------------------------------------------------------
(* The requests of GenerateTree and Deserialize (leaf_generation_data_t).  *)
(* `output` is the address of a child field: the node holding it and the   *)
(* side; node NULL stands for the caller's root pointer.                   *)

RootRequest ==
    [output |-> [node |-> NULL, side |-> ROOT], parent |-> NULL, direction |-> ROOT]

Request(leaf, direction) ==
    [output |-> [node |-> leaf, side |-> direction], parent |-> leaf,
     direction |-> direction]

\* (*leafData.output) = leaf, when output is a field of a node
StoreField(h, output, leaf) ==
    IF output.node = NULL THEN h
    ELSE IF output.side = RIGHT THEN [h EXCEPT ![output.node].mRight = leaf]
    ELSE [h EXCEPT ![output.node].mLeft = leaf]

\* (*leafData.output) = leaf, when output is the caller's root pointer
StoreRoot(t, output, leaf) ==
    IF output.node = NULL THEN leaf ELSE t

\* the heap after the node of a request is created and attached
Attached(h, leafData, value) ==
    LET leaf == Len(h) + 1
        stored == StoreField(New(h, value), leafData.output, leaf)
    IN  IF leafData.parent = NULL THEN stored
        ELSE IF leafData.direction = LEFT
             THEN SetLeftChild(stored, leafData.parent, leaf)
        ELSE IF leafData.direction = RIGHT
             THEN SetRightChild(stored, leafData.parent, leaf)
        ELSE stored

\* the two slots requested in the other order
PushRequestsLeftFirst(queue, leaf) ==
    Append(Append(queue, Request(leaf, LEFT)), Request(leaf, RIGHT))

\* the right slot requested twice
PushRequestsRightTwice(queue, leaf) ==
    Append(Append(queue, Request(leaf, RIGHT)), Request(leaf, RIGHT))

\* lines 412-413: the right slot is requested before the left slot
PushRequests(queue, leaf) ==
    Append(Append(queue, Request(leaf, RIGHT)), Request(leaf, LEFT))

----------------------------------------------------------------------------
(* The input stream: the lines of the file, how many were read, good().    *)

\* std::getline on a good stream: the next line, or an empty line with the
\* stream failed at the end of the file; reading an unterminated last line
\* sets eofbit too
Getline(s) ==
    IF s.pos < Len(s.lines)
    THEN [curline |-> s.lines[s.pos + 1],
          stream |-> [s EXCEPT !.pos = s.pos + 1,
                               !.good = s.pos + 1 < Len(s.lines) \/ s.newlineAtEnd]]
    ELSE [curline |-> <<>>, stream |-> [s EXCEPT !.good = FALSE]]

Opened(lines, newlineAtEnd) ==
    [lines |-> lines, pos |-> 0, good |-> TRUE, newlineAtEnd |-> newlineAtEnd]

Closed ==
    [lines |-> <<>>, pos |-> 0, good |-> FALSE, newlineAtEnd |-> TRUE]

----------------------------------------------------------------------------
(* Inputs. *)

\* the budgets entered: negative, zero and positive
Budgets ==
    (0 - 1)..MaxLeaves

\* values rand() % 255 can return
GenValues ==
    {0, 7, RandModulus - 1}

\* the lines an input file is made of: blank, numbers, not a number
InputLines ==
    {<<>>, <<"5">>, <<"3">>, <<"8">>, <<"-", "1", "2">>, <<"x">>}

Files ==
    UNION {[1..n -> InputLines] : n \in 0..MaxLines}

\* the values of the nodes built through the API
ApiValues ==
    {0 - 3, 10}

WalkValues ==
    {0}

SkipDeeps ==
    {NoSkipDeep, 0, 1}

NoCall ==
    [op |-> "none"]

----------------------------------------------------------------------------
(* The initial states. *)

InitWith(at) ==
    /\ pc = at
    /\ heap = <<>>
    /\ tree = NULL
    /\ original = NULL
    /\ maxLeaves = 0
    /\ leavesGenerated = 0
    /\ toGenerate = <<>>
    /\ toPopulate = <<>>
    /\ stream = Closed
    /\ out = <<>>
    /\ outputOpen = FALSE
    /\ call = NoCall
    /\ result = NULL
    /\ search = SearchSeeds
    /\ destructors = <<>>
    /\ deleted = <<>>
    /\ faults = {}

\* the program of main.cpp starts
Init ==
    InitWith("main")

\* a client of btree.hpp starts
InitApi ==
    InitWith("api")

----------------------------------------------------------------------------
(* Deserialize. *)

\* lines 375-379
DeserializeBegin(lines, newlineAtEnd) ==
    /\ toPopulate' = <<RootRequest>>
    /\ stream' = Opened(lines, newlineAtEnd)

\* lines 382-417: one iteration of the loop
DeserializeStep(at, thrown) ==
    /\ pc = at
    /\ stream.good /\ Len(toPopulate) > 0
    /\ LET got == Getline(stream)
           parsed == StoI(got.curline)
           leafData == Head(toPopulate)
           leaf == Len(heap) + 1
       IN  /\ stream' = got.stream
           /\ IF Len(got.curline) <= 0
              THEN UNCHANGED <<pc, heap, tree, toPopulate>>
              ELSE IF ~parsed.ok
              THEN pc' = thrown /\ UNCHANGED <<heap, tree, toPopulate>>
              ELSE /\ heap' = Attached(heap, leafData, parsed.value)
                   /\ tree' = StoreRoot(tree, leafData.output, leaf)
                   /\ toPopulate' = Tail(PushRequests(toPopulate, leaf))
                   /\ UNCHANGED pc
    /\ UNCHANGED <<original, maxLeaves, leavesGenerated, toGenerate, out,
                   outputOpen, call, result, search,
                   destructors, deleted, faults>>

\* line 382: the loop condition fails and Deserialize returns
DeserializeReturn(at, return) ==
    /\ pc = at
    /\ ~(stream.good /\ Len(toPopulate) > 0)
    /\ pc' = return
    /\ UNCHANGED <<heap, tree, original, maxLeaves, leavesGenerated, toGenerate,
                   toPopulate, stream, out, outputOpen, call, result, search,
                   destructors, deleted, faults>>

----------------------------------------------------------------------------
(* main.cpp. *)

\* lines 68-88: btree.bt opens; the tree is a default node until it is loaded
MainOpenInput(lines, newlineAtEnd) ==
    /\ pc = "main"
    /\ heap' = New(heap, 0)
    /\ tree' = Len(heap) + 1
    /\ DeserializeBegin(lines, newlineAtEnd)
    /\ pc' = "deserialize"
    /\ UNCHANGED <<original, maxLeaves, leavesGenerated, toGenerate, out,
                   outputOpen, call, result, search,
                   destructors, deleted, faults>>

\* lines 104-114 and 16-22: btree.bt does not open; the budget is entered
MainEnterMaxLeaves(entered) ==
    /\ pc = "main"
    /\ maxLeaves' = entered
    /\ tree' = NULL
    /\ toGenerate' = <<RootRequest>>
    /\ leavesGenerated' = 0
    /\ pc' = "generate"
    /\ UNCHANGED <<heap, original, toPopulate, stream, out, outputOpen, call,
                   result, search,
                   destructors, deleted, faults>>

\* a budget check that comes too late by one node
BudgetReachedLate(generated, budget) ==
    generated > budget

\* a budget check that a counter already past the budget never passes
BudgetReachedExactly(generated, budget) ==
    generated = budget

\* line 49
BudgetReached(generated, budget) ==
    generated >= budget

\* lines 25-60: one iteration of the loop of GenerateTree; at the break the
\* tree is returned and main opens the output file (line 123)
GenerateTreeStep(leafValue) ==
    /\ pc = "generate"
    /\ Len(toGenerate) > 0
    /\ LET leafData == Head(toGenerate)
           leaf == Len(heap) + 1
       IN  /\ heap' = Attached(heap, leafData, leafValue)
           /\ tree' = StoreRoot(tree, leafData.output, leaf)
           /\ leavesGenerated' = leavesGenerated + 1
           /\ IF BudgetReached(leavesGenerated + 1, maxLeaves)
              THEN /\ pc' = "search"
                   /\ outputOpen' = TRUE
                   /\ UNCHANGED toGenerate
              ELSE /\ toGenerate' = Tail(PushRequests(toGenerate, leaf))
                   /\ UNCHANGED <<pc, outputOpen>>
    /\ UNCHANGED <<original, maxLeaves, toPopulate, stream, out, call, result,
                   search,
                   destructors, deleted, faults>>

\* lines 126-137: the search, from the accumulators as main seeds them
MainSearch ==
    /\ pc = "search"
    /\ search' = GetMinMaxWeightSumChildrenRatio(heap, tree, SearchSeeds)
    /\ call' = [op |-> "GetMinMaxWeightSumChildrenRatio", this |-> tree]
    /\ result' = RatiosComputed(heap, tree)
    /\ pc' = IF outputOpen THEN "serialize" ELSE "print"
    /\ UNCHANGED <<heap, tree, original, maxLeaves, leavesGenerated, toGenerate,
                   toPopulate, stream, out, outputOpen, destructors, deleted, faults>>

\* lines 146-162: the generated tree is written to btree.bt
MainSerialize ==
    /\ pc = "serialize"
    /\ out' = Serialize(heap, tree, NoSkipDeep, FALSE)
    /\ pc' = "print"
    /\ UNCHANGED <<heap, tree, original, maxLeaves, leavesGenerated, toGenerate,
                   toPopulate, stream, outputOpen, call, result, search,
                   destructors, deleted, faults>>

\* lines 68-88, the program started again after a run that wrote btree.bt:
\* the file opens and is loaded; the tree of the first run is kept aside
MainRunAgain ==
    /\ pc = "print"
    /\ outputOpen
    /\ original' = tree
    /\ heap' = New(heap, 0)
    /\ tree' = Len(heap) + 1
    /\ DeserializeBegin(out, TRUE)
    /\ outputOpen' = FALSE
    /\ pc' = "reload"
    /\ UNCHANGED <<maxLeaves, leavesGenerated, toGenerate, out, call, result, search,
                   destructors, deleted, faults>>

Next ==
    \/ /\ pc = "main"
       /\ \E lines \in Files, newlineAtEnd \in BOOLEAN :
             /\ newlineAtEnd \/ (Len(lines) > 0 /\ Len(lines[Len(lines)]) > 0)
             /\ MainOpenInput(lines, newlineAtEnd)
    \/ DeserializeStep("deserialize", "terminated")
    \/ DeserializeReturn("deserialize", "search")
    \/ \E entered \in Budgets : MainEnterMaxLeaves(entered)
    \/ \E leafValue \in GenValues : GenerateTreeStep(leafValue)
    \/ MainSearch
    \/ MainSerialize
    \/ MainRunAgain
    \/ DeserializeStep("reload", "thrown")
    \/ DeserializeReturn("reload", "reloaded")

Spec ==
    Init /\ [][Next]_vars

----------------------------------------------------------------------------
(* A client of btree.hpp: it builds a tree node by node, then calls one    *)
(* member function on it.                                                  *)

ApiUnchanged ==
    UNCHANGED <<original, maxLeaves, leavesGenerated, toGenerate, toPopulate,
                stream, outputOpen, search,
                   destructors, deleted, faults>>

\* tree = new BinaryLeaf<int>(value)
ApiNewRoot(value) ==
    /\ pc = "api"
    /\ tree = NULL
    /\ heap' = New(heap, value)
    /\ tree' = Len(heap) + 1
    /\ UNCHANGED <<pc, out, call, result>>
    /\ ApiUnchanged

\* this->SetLeftChild(new BinaryLeaf<int>(value)), on an empty slot
ApiSetLeftChild(this, value) ==
    /\ pc = "api"
    /\ this \in Leaves(heap)
    /\ heap[this].mLeft = NULL
    /\ heap' = SetLeftChild(New(heap, value), this, Len(heap) + 1)
    /\ UNCHANGED <<pc, tree, out, call, result>>
    /\ ApiUnchanged

\* this->SetRightChild(new BinaryLeaf<int>(value)), on an empty slot
ApiSetRightChild(this, value) ==
    /\ pc = "api"
    /\ this \in Leaves(heap)
    /\ heap[this].mRight = NULL
    /\ heap' = SetRightChild(New(heap, value), this, Len(heap) + 1)
    /\ UNCHANGED <<pc, tree, out, call, result>>
    /\ ApiUnchanged

\* this->Walk(walker, includeSelf), the walker stopping on the nodes of stops
ApiWalk(this, stops, includeSelf) ==
    /\ pc = "api"
    /\ this \in Leaves(heap)
    /\ call' = [op |-> "Walk", this |-> this, stops |-> stops,
                includeSelf |-> includeSelf]
    /\ result' = Walk(heap, this, stops, includeSelf)
    /\ pc' = "walked"
    /\ UNCHANGED <<heap, tree, out>>
    /\ ApiUnchanged

\* tree->Serialize(out, skipDeep, pretty)
ApiSerialize(skipDeep, pretty) ==
    /\ pc = "api"
    /\ tree # NULL
    /\ call' = [op |-> "Serialize", this |-> tree, skipDeep |-> skipDeep,
                pretty |-> pretty]
    /\ out' = Serialize(heap, tree, skipDeep, pretty)
    /\ pc' = "serialized"
    /\ UNCHANGED <<heap, tree, result>>
    /\ ApiUnchanged

\* BinaryTree<int>* loaded = nullptr; Deserialize(in, &loaded, stoi), on what
\* Serialize wrote
ApiDeserialize ==
    /\ pc = "serialized"
    /\ original' = tree
    /\ tree' = NULL
    /\ DeserializeBegin(out, TRUE)
    /\ pc' = "reload"
    /\ UNCHANGED <<heap, maxLeaves, leavesGenerated, toGenerate, out, outputOpen,
                   call, result, search,
                   destructors, deleted, faults>>

\* this->GetWeightSumChildrenRatio()
ApiRatio(this) ==
    /\ pc = "api"
    /\ this \in Leaves(heap)
    /\ call' = [op |-> "GetWeightSumChildrenRatio", this |-> this]
    /\ result' = GetWeightSumChildrenRatio(heap, this)
    /\ pc' = "measured"
    /\ UNCHANGED <<heap, tree, out>>
    /\ ApiUnchanged

\* The place of a node in its tree: 1 for the root, 2p for the right child
\* and 2p + 1 for the left child of the node at place p.
RECURSIVE PlaceOf(_, _, _)
PlaceOf(h, root, leaf) ==
    IF leaf = root THEN 1
    ELSE LET parent == CHOOSE p \in Leaves(h) :
                           h[p].mRight = leaf \/ h[p].mLeft = leaf
         IN  2 * PlaceOf(h, root, parent) + (IF h[parent].mRight = leaf THEN 0 ELSE 1)

\* Addresses are not observable, so the client builds each shape once: the
\* nodes are attached in the order of their places.
NextToAttach(this, direction) ==
    /\ pc = "api"
    /\ 2 * PlaceOf(heap, tree, this) + (IF direction = RIGHT THEN 0 ELSE 1)
          > PlaceOf(heap, tree, Len(heap))

\* the client builds trees of values and serializes, reloads or measures them
NextTree ==
    \/ \E value \in ApiValues : ApiNewRoot(value)
    \/ \E this \in Leaves(heap), value \in ApiValues :
          /\ Len(heap) < MaxApiNodes
          /\ NextToAttach(this, LEFT)
          /\ ApiSetLeftChild(this, value)
    \/ \E this \in Leaves(heap), value \in ApiValues :
          /\ Len(heap) < MaxApiNodes
          /\ NextToAttach(this, RIGHT)
          /\ ApiSetRightChild(this, value)
    \/ \E skipDeep \in SkipDeeps, pretty \in BOOLEAN : ApiSerialize(skipDeep, pretty)
    \/ ApiDeserialize
    \/ DeserializeStep("reload", "thrown")
    \/ DeserializeReturn("reload", "reloaded")
    \/ \E this \in Leaves(heap) : ApiRatio(this)

SpecTree ==
    InitApi /\ [][NextTree]_vars

\* the walkers: never stopping, stopping on one node, stopping on any node
StopSets(h) ==
    {{}, Leaves(h)} \cup {{leaf} : leaf \in Leaves(h)}

\* the client builds trees of any shape and walks them
NextWalk ==
    \/ \E value \in WalkValues : ApiNewRoot(value)
    \/ \E this \in Leaves(heap), value \in WalkValues :
          /\ Len(heap) < MaxWalkNodes
          /\ NextToAttach(this, LEFT)
          /\ ApiSetLeftChild(this, value)
    \/ \E this \in Leaves(heap), value \in WalkValues :
          /\ Len(heap) < MaxWalkNodes
          /\ NextToAttach(this, RIGHT)
          /\ ApiSetRightChild(this, value)
    \/ /\ pc = "api"
       /\ \E this \in Leaves(heap), stops \in StopSets(heap), includeSelf \in BOOLEAN :
             ApiWalk(this, stops, includeSelf)

SpecWalk ==
    InitApi /\ [][NextWalk]_vars

----------------------------------------------------------------------------
(* The destructor, step by step.  Every call of ~BinaryLeaf in progress is *)
(* a frame holding the queue of its Walk; the walker's `delete leaf` runs  *)
(* the destructor of leaf to its end before the calling walk goes on.      *)

Frame(this, collected) ==
    [this |-> this, collected |-> collected]

\* operator delete has released the memory of leaf
IsFreed(log, leaf) ==
    \E i \in 1..Len(log) : log[i] = leaf

\* Using a node after its memory was released is undefined: the old
\* contents may still be there, the memory may have been cleared, or the
\* program may crash.
Outcomes(log, leaf) ==
    IF IsFreed(log, leaf) THEN {"stale", "cleared", "crash"} ELSE {"valid"}

\* the heap as a read of leaf->mRight and leaf->mLeft finds it
AsRead(h, leaf, outcome) ==
    IF outcome = "cleared"
    THEN [h EXCEPT ![leaf].mRight = NULL, ![leaf].mLeft = NULL]
    ELSE h

\* delete this, called by the client
ApiDelete(this) ==
    /\ pc = "api"
    /\ this \in Leaves(heap)
    /\ call' = [op |-> "delete", this |-> this]
    /\ destructors' = <<Frame(this, WalkSeed(heap, this, FALSE))>>
    /\ pc' = "deleting"
    /\ UNCHANGED <<heap, tree, out, result, deleted, faults>>
    /\ UNCHANGED <<original, maxLeaves, leavesGenerated, toGenerate, toPopulate,
                   stream, outputOpen, search>>

\* lines 166-185 and 108: one turn of the loop of the innermost destructor,
\* up to the start of the destructor its walker calls
DestructorWalk(outcome) ==
    /\ pc = "deleting"
    /\ LET top == Len(destructors)
           collected == destructors[top].collected
       IN  /\ Len(collected) > 0
           /\ LET leaf == Head(collected)
                  found == AsRead(heap, leaf, outcome)
                  rest == PushChildren(found, Tail(collected), leaf)
              IN  /\ outcome \in Outcomes(deleted, leaf)
                  /\ faults' = IF IsFreed(deleted, leaf)
                                   THEN faults \cup {"read after free"}
                                   ELSE faults
                  /\ IF outcome = "crash"
                        THEN pc' = "crashed" /\ UNCHANGED destructors
                        ELSE /\ destructors' =
                                    Append([destructors EXCEPT ![top].collected = rest],
                                           Frame(leaf, WalkSeed(found, leaf, FALSE)))
                             /\ UNCHANGED pc
    /\ UNCHANGED <<heap, tree, out, call, result, deleted>>
    /\ UNCHANGED <<original, maxLeaves, leavesGenerated, toGenerate, toPopulate,
                   stream, outputOpen, search>>

\* lines 111-112: the innermost destructor's queue is empty, it returns and
\* operator delete releases the memory of its node
DestructorReturn(outcome) ==
    /\ pc = "deleting"
    /\ LET top == Len(destructors)
           this == destructors[top].this
       IN  /\ Len(destructors[top].collected) = 0
           /\ outcome \in Outcomes(deleted, this)
           /\ faults' = IF IsFreed(deleted, this)
                            THEN faults \cup {"double free"}
                            ELSE faults
           /\ IF outcome = "crash"
                 THEN pc' = "crashed" /\ UNCHANGED <<destructors, deleted>>
                 ELSE /\ deleted' = Append(deleted, this)
                      /\ destructors' = SubSeq(destructors, 1, top - 1)
                      /\ pc' = IF top = 1 THEN "deleted" ELSE "deleting"
    /\ UNCHANGED <<heap, tree, out, call, result>>
    /\ UNCHANGED <<original, maxLeaves, leavesGenerated, toGenerate, toPopulate,
                   stream, outputOpen, search>>

\* what a use of freed memory may do
UseOutcomes ==
    {"valid", "stale", "cleared", "crash"}

\* the client builds trees of any shape and deletes a node of them
NextDelete ==
    \/ \E value \in WalkValues : ApiNewRoot(value)
    \/ \E this \in Leaves(heap), value \in WalkValues :
          /\ Len(heap) < MaxApiNodes
          /\ NextToAttach(this, LEFT)
          /\ ApiSetLeftChild(this, value)
    \/ \E this \in Leaves(heap), value \in WalkValues :
          /\ Len(heap) < MaxApiNodes
          /\ NextToAttach(this, RIGHT)
          /\ ApiSetRightChild(this, value)
    \/ \E this \in Leaves(heap) : ApiDelete(this)
    \/ \E outcome \in UseOutcomes : DestructorWalk(outcome)
    \/ \E outcome \in UseOutcomes : DestructorReturn(outcome)

SpecDelete ==
    InitApi /\ [][NextDelete]_vars

----------------------------------------------------------------------------
(* What the properties speak of, defined on the links of the tree alone.   *)

\* a node and all its descendants
RECURSIVE Subtree(_, _)
Subtree(h, leaf) ==
    IF leaf = NULL THEN {}
    ELSE {leaf} \cup Subtree(h, h[leaf].mRight) \cup Subtree(h, h[leaf].mLeft)

\* same shape, and the same value, depth and direction at every node
RECURSIVE SameTree(_, _, _)
SameTree(h, a, b) ==
    IF a = NULL \/ b = NULL THEN a = b
    ELSE /\ h[a].mValue = h[b].mValue
         /\ h[a].mDepth = h[b].mDepth
         /\ h[a].mDirection = h[b].mDirection
         /\ SameTree(h, h[a].mRight, h[b].mRight)
         /\ SameTree(h, h[a].mLeft, h[b].mLeft)

\* same shape, whatever the nodes hold
RECURSIVE SameShape(_, _, _)
SameShape(h, a, b) ==
    IF a = NULL \/ b = NULL THEN a = b
    ELSE /\ SameShape(h, h[a].mRight, h[b].mRight)
         /\ SameShape(h, h[a].mLeft, h[b].mLeft)

\* the level of a place: 0 for place 1, 1 for places 2 and 3, ...
RECURSIVE LevelOf(_)
LevelOf(place) ==
    IF place = 1 THEN 0 ELSE 1 + LevelOf(place \div 2)

\* the place on level 1 a place lies under: 2 (right) or 3 (left)
RECURSIVE BranchOf(_)
BranchOf(place) ==
    IF place <= 3 THEN place ELSE BranchOf(place \div 2)

\* The breadth-first order of the nodes under `this`: level by level, and on
\* a level the right child before the left child of a node, the children of
\* an earlier node before those of a later one.  Without `this`, the nodes
\* under its left child come first on every level.
Before(h, this, includeSelf, a, b) ==
    LET pa == PlaceOf(h, this, a)
        pb == PlaceOf(h, this, b)
    IN  \/ LevelOf(pa) < LevelOf(pb)
        \/ /\ LevelOf(pa) = LevelOf(pb)
           /\ IF includeSelf THEN pa < pb
              ELSE \/ BranchOf(pa) > BranchOf(pb)
                   \/ BranchOf(pa) = BranchOf(pb) /\ pa < pb

RECURSIVE InOrder(_, _, _, _)
InOrder(h, this, includeSelf, leaves) ==
    IF leaves = {} THEN <<>>
    ELSE LET first == CHOOSE a \in leaves :
                          \A b \in leaves \ {a} : Before(h, this, includeSelf, a, b)
         IN  <<first>> \o InOrder(h, this, includeSelf, leaves \ {first})

BreadthFirst(h, this, includeSelf) ==
    InOrder(h, this, includeSelf,
            IF includeSelf THEN Subtree(h, this) ELSE Subtree(h, this) \ {this})

Range(seq) ==
    {seq[i] : i \in 1..Len(seq)}

IndexIn(seq, x) ==
    CHOOSE i \in 1..Len(seq) : seq[i] = x

ValuesOf(h, seq) ==
    [i \in 1..Len(seq) |-> h[seq[i]].mValue]

NonBlank(line) ==
    Len(line) > 0

----------------------------------------------------------------------------
(* C1.  Round trip: writing any tree with Serialize in plain mode (no      *)
(* depth limit, pretty = false) and reading the lines back with            *)
(* Deserialize and the exact inverse parser rebuilds a tree of the same    *)
(* shape with the same depth, direction and value at every node.           *)
(* The lines hold no position, and Deserialize fills the slots level by    *)
(* level, so a tree with a node that has only a left child comes back      *)
(* with that child on the right.                                           *)

PlainCall ==
    call.op = "Serialize" /\ call.skipDeep = NoSkipDeep /\ ~call.pretty

C1_RoundTrip ==
    (pc = "reloaded" /\ PlainCall) => SameTree(heap, original, tree)

----------------------------------------------------------------------------
(* C2.  For every budget N >= 1 and every sequence of random values, the   *)
(* tree GenerateTree(N) returns has at least 1 and at most N nodes.        *)

\* GenerateTree has returned (main opens the output file right after it)
Generated ==
    outputOpen

C2_NodeCount ==
    (Generated /\ maxLeaves >= 1) =>
        /\ tree # NULL
        /\ Cardinality(Subtree(heap, tree)) >= 1
        /\ Cardinality(Subtree(heap, tree)) <= maxLeaves

C2_Witness ==
    /\ Generated
    /\ maxLeaves >= 3
    /\ Cardinality(Subtree(heap, tree)) = maxLeaves

----------------------------------------------------------------------------
(* C3.  In every state reached while GenerateTree or Deserialize builds a  *)
(* tree, and in the final tree: the root has depth 0 and direction ROOT,   *)
(* and every other node has the depth of its parent plus 1 and the         *)
(* direction, LEFT or RIGHT, of the slot of the parent that holds it.      *)

WellFormed(h, root) ==
    /\ h[root].mDepth = 0
    /\ h[root].mDirection = ROOT
    /\ \A parent \in Subtree(h, root) :
          /\ h[parent].mRight # NULL =>
                /\ h[h[parent].mRight].mDepth = h[parent].mDepth + 1
                /\ h[h[parent].mRight].mDirection = RIGHT
          /\ h[parent].mLeft # NULL =>
                /\ h[h[parent].mLeft].mDepth = h[parent].mDepth + 1
                /\ h[h[parent].mLeft].mDirection = LEFT

C3_DepthAndDirection ==
    tree # NULL => WellFormed(heap, tree)

\* GenerateTree is at work on a tree that already has a node of depth 2
C3_Witness ==
    /\ pc = "generate"
    /\ tree # NULL
    /\ heap[tree].mRight # NULL /\ heap[tree].mLeft # NULL
    /\ \E leaf \in Subtree(heap, tree) :
          heap[leaf].mDepth = 2 /\ heap[leaf].mDirection = RIGHT

----------------------------------------------------------------------------
(* C4.  Walk with includeSelf = true and a walker that never stops calls   *)
(* the walker exactly once on every node of the subtree, in breadth-first  *)
(* order: all nodes of a depth before any deeper node, and the right child *)
(* of a node before its left child; for a root with children L and R that  *)
(* have two children each the order is root, R, L, R.right, R.left,        *)
(* L.right, L.left.                                                        *)

WalkedAll ==
    /\ pc = "walked"
    /\ call.includeSelf
    /\ call.stops \cap Subtree(heap, call.this) = {}

\* the root and its two children have two children each
FullTree(h, root) ==
    /\ h[root].mRight # NULL /\ h[root].mLeft # NULL
    /\ h[h[root].mRight].mRight # NULL /\ h[h[root].mRight].mLeft # NULL
    /\ h[h[root].mLeft].mRight # NULL /\ h[h[root].mLeft].mLeft # NULL

FullTreeOrder(h, root) ==
    <<root, h[root].mRight, h[root].mLeft,
      h[h[root].mRight].mRight, h[h[root].mRight].mLeft,
      h[h[root].mLeft].mRight, h[h[root].mLeft].mLeft>>

C4_WalkOrder ==
    WalkedAll =>
        /\ Range(result) = Subtree(heap, call.this)
        /\ Len(result) = Cardinality(Subtree(heap, call.this))
        /\ \A i, j \in 1..Len(result) :
              i < j => heap[result[i]].mDepth <= heap[result[j]].mDepth
        /\ \A leaf \in Range(result) :
              (heap[leaf].mRight # NULL /\ heap[leaf].mLeft # NULL) =>
                  IndexIn(result, heap[leaf].mRight) < IndexIn(result, heap[leaf].mLeft)
        /\ result = BreadthFirst(heap, call.this, TRUE)
        /\ (FullTree(heap, call.this) /\ Len(result) = 7) =>
              result = FullTreeOrder(heap, call.this)

C4_Witness ==
    /\ WalkedAll
    /\ call.this = tree
    /\ FullTree(heap, tree)
    /\ result = FullTreeOrder(heap, tree)

----------------------------------------------------------------------------
(* C5.  When the walker returns true (stop) on a node n, Walk returns      *)
(* without calling the walker on any further node: the nodes visited are   *)
(* the breadth-first order up to and including n, whatever the queue still *)
(* holds.                                                                  *)

\* the first place of seq that holds a node of stops
FirstStop(seq, stops) ==
    CHOOSE i \in 1..Len(seq) :
        seq[i] \in stops /\ \A j \in 1..(i - 1) : seq[j] \notin stops

C5_StopEndsWalk ==
    pc = "walked" =>
        LET order == BreadthFirst(heap, call.this, call.includeSelf)
        IN  Range(order) \cap call.stops # {} =>
                /\ result = SubSeq(order, 1, FirstStop(order, call.stops))
                /\ result[Len(result)] \in call.stops
                /\ \A i \in 1..(Len(result) - 1) : result[i] \notin call.stops

\* the walk stopped with its children and a later node still in the queue
C5_Witness ==
    /\ pc = "walked"
    /\ Len(result) >= 2
    /\ result[Len(result)] \in call.stops
    /\ heap[result[Len(result)]].mRight # NULL
    /\ Len(result) + 2 <= Len(BreadthFirst(heap, call.this, call.includeSelf))

----------------------------------------------------------------------------
(* C6.  GenerateTree called with a budget maxLeaves <= 0 does not fail and *)
(* returns a tree of exactly one node: a root with depth 0, direction ROOT *)
(* and no children.                                                        *)

C6_NonPositiveBudget ==
    maxLeaves <= 0 =>
        /\ pc = "generate" => (leavesGenerated = 0 /\ tree = NULL)
        /\ Generated =>
              /\ pc \in {"search", "serialize", "print"}
              /\ tree # NULL
              /\ Subtree(heap, tree) = {tree}
              /\ heap[tree].mDepth = 0
              /\ heap[tree].mDirection = ROOT
              /\ heap[tree].mRight = NULL
              /\ heap[tree].mLeft = NULL

C6_Witness ==
    /\ Generated
    /\ maxLeaves < 0
    /\ leavesGenerated = 1
    /\ tree # NULL

----------------------------------------------------------------------------
(* C7.  Deserializing the three lines "5", "3", "8" yields a root with     *)
(* value 5 at depth 0 whose right child has value 3 at depth 1 with        *)
(* direction RIGHT, and whose left child has value 8 at depth 1 with       *)
(* direction LEFT; the tree has no other node.                             *)
(* (As first stated the left child was absent: C7_LeftChildAbsent.)        *)

\* Deserialize has returned to main
Loaded ==
    ~outputOpen /\ pc \in {"search", "print"}

FiveThreeEight ==
    Loaded /\ stream.lines = <<<<"5">>, <<"3">>, <<"8">>>>

RootAndRightChild ==
    /\ tree # NULL
    /\ heap[tree].mValue = 5
    /\ heap[tree].mDepth = 0
    /\ heap[tree].mRight # NULL
    /\ heap[heap[tree].mRight].mValue = 3
    /\ heap[heap[tree].mRight].mDepth = 1
    /\ heap[heap[tree].mRight].mDirection = RIGHT

C7_LeftChildAbsent ==
    FiveThreeEight => (RootAndRightChild /\ heap[tree].mLeft = NULL)

C7_Example ==
    FiveThreeEight =>
        /\ RootAndRightChild
        /\ heap[tree].mLeft # NULL
        /\ heap[heap[tree].mLeft].mValue = 8
        /\ heap[heap[tree].mLeft].mDepth = 1
        /\ heap[heap[tree].mLeft].mDirection = LEFT
        /\ Cardinality(Subtree(heap, tree)) = 3

C7_Witness ==
    FiveThreeEight /\ RootAndRightChild

----------------------------------------------------------------------------
(* C8.  For every input, Deserialize creates exactly one node per          *)
(* non-empty line (a blank line creates no node and consumes no pending    *)
(* slot), and a breadth-first Walk (includeSelf = true) of the resulting   *)
(* tree yields the parsed values of the non-empty lines in input order.    *)
(* Stated of every iteration (on the lines read so far) and of the return  *)
(* (on all the lines); the lines are those the parser accepts.             *)

\* the nodes Deserialize created: all but the default node of main
Created ==
    Len(heap) - 1

ParsedValues(lines) ==
    LET nonBlank == SelectSeq(lines, NonBlank)
    IN  [i \in 1..Len(nonBlank) |-> StoI(nonBlank[i]).value]

OneNodePerLine(lines) ==
    /\ Created = Len(SelectSeq(lines, NonBlank))
    /\ Len(toPopulate) = Created + 1
    /\ Created > 0 => ValuesOf(heap, Walk(heap, tree, {}, TRUE)) = ParsedValues(lines)

C8_OneNodePerLine ==
    /\ (pc = "deserialize") => OneNodePerLine(SubSeq(stream.lines, 1, stream.pos))
    /\ Loaded => OneNodePerLine(stream.lines)

\* a file with a blank line between numbers has been loaded
C8_Witness ==
    /\ Loaded
    /\ Created = 3
    /\ Len(stream.lines) = 4
    /\ stream.lines[2] = <<>>
    /\ heap[tree].mRight # NULL
    /\ heap[heap[tree].mRight].mValue = 0 - 12

----------------------------------------------------------------------------
(* C9.  For every node n of every tree, GetWeightSumChildrenRatio(n) is    *)
(* the sum of depth * value over n and all its descendants, divided by     *)
(* max(1, number of descendants of n, n excluded); for a node without      *)
(* children it is depth(n) * value(n).                                     *)

RECURSIVE SumOfWeights(_, _)
SumOfWeights(h, leaves) ==
    IF leaves = {} THEN 0
    ELSE LET leaf == CHOOSE n \in leaves : TRUE
         IN  h[leaf].mDepth * h[leaf].mValue + SumOfWeights(h, leaves \ {leaf})

\* the fraction r is sum / count
IsQuotient(r, sum, count) ==
    r.den > 0 /\ r.num * count = sum * r.den

C9_Ratio ==
    (pc = "measured" /\ call.op = "GetWeightSumChildrenRatio") =>
        LET under == Subtree(heap, call.this)
            descendants == Cardinality(under) - 1
        IN  /\ IsQuotient(result, SumOfWeights(heap, under),
                          IF descendants > 1 THEN descendants ELSE 1)
            /\ descendants = 0 =>
                  IsQuotient(result, heap[call.this].mDepth * heap[call.this].mValue, 1)

\* the ratio of a node below the root that has two children was computed
C9_Witness ==
    /\ pc = "measured"
    /\ call.this # tree
    /\ heap[call.this].mRight # NULL
    /\ heap[call.this].mLeft # NULL
    /\ result.den = 2
    /\ result.num # 0

----------------------------------------------------------------------------
(* C10.  When the program has run the search on its tree, from the         *)
(* accumulators as main seeds them, min_ratio is the least and max_ratio   *)
(* the greatest subtree ratio over all nodes of the tree, and min_node and *)
(* max_node are nodes of the tree (never left unset) whose ratios are      *)
(* min_ratio and max_ratio; for every tree, a single-node tree and a tree  *)
(* whose ratios are all zero or negative included.                         *)
(* main seeds max_ratio with 0.0 and min_ratio with 99999999.0: a ratio    *)
(* replaces the seed only if it is greater than 0, or less than 99999999.  *)

\* GetMinMaxWeightSumChildrenRatio has returned to main
Searched ==
    pc \in {"serialize", "print"}

SameRatio(a, b) ==
    a.num * b.den = b.num * a.den

C10_MinMax ==
    Searched =>
        LET leaves == Subtree(heap, tree)
        IN  /\ search.outputMinHolder \in leaves
            /\ search.outputMaxHolder \in leaves
            /\ SameRatio(GetWeightSumChildrenRatio(heap, search.outputMinHolder),
                         search.outputMin)
            /\ SameRatio(GetWeightSumChildrenRatio(heap, search.outputMaxHolder),
                         search.outputMax)
            /\ \A leaf \in leaves :
                  /\ ~Less(GetWeightSumChildrenRatio(heap, leaf), search.outputMin)
                  /\ ~Less(search.outputMax, GetWeightSumChildrenRatio(heap, leaf))

----------------------------------------------------------------------------
(* C11.  The search of main over a tree of N >= 1 nodes computes exactly N *)
(* ratios, one per node, and returns min_ratio <= max_ratio; for a tree    *)
(* with a single node, min_ratio = max_ratio.                              *)

C11_RatiosAndOrder ==
    Searched =>
        /\ Len(result) = Cardinality(Subtree(heap, tree))
        /\ {result[i].leaf : i \in 1..Len(result)} = Subtree(heap, tree)
        /\ ~Less(search.outputMax, search.outputMin)
        /\ Cardinality(Subtree(heap, tree)) = 1 =>
              SameRatio(search.outputMin, search.outputMax)

\* a search over three nodes or more that found two different ratios
C11_Witness ==
    /\ Searched
    /\ Len(result) >= 3
    /\ Less(search.outputMin, search.outputMax)
    /\ search.outputMinHolder # NULL
    /\ search.outputMaxHolder # NULL

----------------------------------------------------------------------------
(* C12.  Destroying a node frees every descendant of it exactly once: no   *)
(* node is freed twice, no node is read after it was freed, and when the   *)
(* destruction is over the freed nodes are the node and its descendants.   *)

C12_FreedOnce ==
    /\ faults = {}
    /\ \A i, j \in 1..Len(deleted) : deleted[i] = deleted[j] => i = j
    /\ pc = "deleted" => Range(deleted) = Subtree(heap, call.this)

----------------------------------------------------------------------------
(* C13.  For every tree T, reading back with Deserialize and the integer   *)
(* parser what Serialize wrote in pretty mode and/or with a depth limit    *)
(* either fails to parse or builds a tree whose shape differs from T.      *)

C13_NeverAccepted ==
    (pc = "reloaded" /\ call.op = "Serialize" /\ ~PlainCall) =>
        ~SameShape(heap, original, tree)

----------------------------------------------------------------------------
(* C14.  Walk with includeSelf = false and a walker that never stops is    *)
(* right-before-left on every level, the first included: a start node with *)
(* both children has its right child visited before its left child, and    *)
(* the nodes visited are those of the walk with includeSelf = true, in the *)
(* same order, without the start node.                                     *)

WalkedBelow ==
    /\ pc = "walked"
    /\ ~call.includeSelf
    /\ call.stops \cap Subtree(heap, call.this) = {}

C14_RightBeforeLeft ==
    WalkedBelow =>
        /\ result = Tail(BreadthFirst(heap, call.this, TRUE))
        /\ (heap[call.this].mRight # NULL /\ heap[call.this].mLeft # NULL) =>
              IndexIn(result, heap[call.this].mRight)
                  < IndexIn(result, heap[call.this].mLeft)

----------------------------------------------------------------------------
(* C15.  Serialize with a depth limit d.  If no node is deeper than d,     *)
(* the line of every node is written and no marker.  Otherwise the lines   *)
(* written are those of the nodes up to the first node (in breadth-first   *)
(* order) deeper than d, that node's own line included, and then the       *)
(* marker "..." once, as the last line; no node after it is visited.       *)

Serialized ==
    pc = "serialized"

\* the nodes of the serialized tree deeper than the limit
Deeper ==
    {n \in Subtree(heap, tree) : heap[n].mDepth > call.skipDeep}

\* the nodes in breadth-first order up to the first one deeper than the limit
UpToFirstDeeper ==
    LET order == BreadthFirst(heap, tree, TRUE)
        first == CHOOSE k \in 1..Len(order) :
                    /\ order[k] \in Deeper
                    /\ \A i \in 1..(k - 1) : order[i] \notin Deeper
    IN  SubSeq(order, 1, first)

LinesOf(leaves) ==
    [i \in 1..Len(leaves) |-> SerializedLine(heap[leaves[i]], call.pretty)]

MarkerOnceAtEnd ==
    /\ Len(out) >= 1
    /\ out[Len(out)] = TruncationMarker
    /\ \A i \in 1..(Len(out) - 1) : out[i] # TruncationMarker

\* as stated: every line before the marker is of a node within the limit
C15_LinesWithinLimit ==
    (Serialized /\ Deeper # {}) =>
        /\ MarkerOnceAtEnd
        /\ LET order == BreadthFirst(heap, tree, TRUE)
           IN  \A i \in 1..(Len(out) - 1) :
                  /\ out[i] = SerializedLine(heap[order[i]], call.pretty)
                  /\ heap[order[i]].mDepth <= call.skipDeep

C15_Truncation ==
    Serialized =>
        IF Deeper = {}
        THEN /\ out = LinesOf(BreadthFirst(heap, tree, TRUE))
             /\ TruncationMarker \notin Range(out)
        ELSE /\ MarkerOnceAtEnd
             /\ out = Append(LinesOf(UpToFirstDeeper), TruncationMarker)
             /\ \A i \in 1..(Len(UpToFirstDeeper) - 1) :
                   heap[UpToFirstDeeper[i]].mDepth <= call.skipDeep
             /\ heap[UpToFirstDeeper[Len(UpToFirstDeeper)]].mDepth > call.skipDeep

\* a truncated output that left nodes out
C15_Witness ==
    /\ Serialized
    /\ Deeper # {}
    /\ Len(out) >= 3
    /\ Len(out) - 1 < Cardinality(Subtree(heap, tree))
    /\ out[Len(out)] = TruncationMarker

----------------------------------------------------------------------------
(* C16.  When several nodes share the minimum (the maximum) ratio, the     *)
(* search of main reports as holder of the minimum (of the maximum) the    *)
(* one of them that comes first in breadth-first order.                    *)

\* the nodes whose ratio no node's ratio is below
MinNodes ==
    {a \in Subtree(heap, tree) :
        \A b \in Subtree(heap, tree) :
            ~Less(GetWeightSumChildrenRatio(heap, b), GetWeightSumChildrenRatio(heap, a))}

\* the nodes whose ratio no node's ratio is above
MaxNodes ==
    {a \in Subtree(heap, tree) :
        \A b \in Subtree(heap, tree) :
            ~Less(GetWeightSumChildrenRatio(heap, a), GetWeightSumChildrenRatio(heap, b))}

\* the node of a set that comes first in breadth-first order
FirstOf(leaves) ==
    LET order == BreadthFirst(heap, tree, TRUE)
    IN  CHOOSE a \in leaves : \A b \in leaves : IndexIn(order, a) <= IndexIn(order, b)

C16_FirstWins ==
    Searched =>
        /\ Cardinality(MinNodes) >= 2 => search.outputMinHolder = FirstOf(MinNodes)
        /\ Cardinality(MaxNodes) >= 2 => search.outputMaxHolder = FirstOf(MaxNodes)

----------------------------------------------------------------------------
(* C17.  Teardown is not recursive: while the destructor of one node walks *)
(* its queue, the destructor of no other node starts a walk of its own, so *)
(* never more than one call of the destructor is in progress.              *)

C17_NoNesting ==
    Len(destructors) <= 1

----------------------------------------------------------------------------
(* C18.  When the parser fails on a non-empty line, Deserialize stops and  *)
(* the failure reaches the caller: no node is created for that line, no    *)
(* later line is read, and the line is never skipped to go on with the     *)
(* next one.                                                               *)

\* a non-empty line without a leading integer
Rejected(line) ==
    LET t == SkipSpace(line)
        unsigned == IF Len(t) > 0 /\ Head(t) \in {"-", "+"} THEN Tail(t) ELSE t
    IN  /\ NonBlank(line)
        /\ ~(Len(unsigned) > 0 /\ Head(unsigned) \in DigitChars)

\* the exception has left Deserialize and main
Thrown ==
    pc = "terminated"

C18_ParseFailureStops ==
    /\ \A i \in 1..stream.pos :
          Rejected(stream.lines[i]) => (Thrown /\ i = stream.pos)
    /\ Thrown =>
          /\ stream.pos >= 1
          /\ Rejected(stream.lines[stream.pos])
          /\ OneNodePerLine(SubSeq(stream.lines, 1, stream.pos - 1))

\* the parser failed on the third line of four, after two nodes
C18_Witness ==
    /\ Thrown
    /\ stream.pos = 3
    /\ Len(stream.lines) = 4
    /\ Created = 2
    /\ NonBlank(stream.lines[4])

----------------------------------------------------------------------------
(* C19.  For every budget and every sequence of random values the tree of  *)
(* GenerateTree survives the round trip: Walk visits its nodes in the      *)
(* order they were created, so Serialize in plain mode followed by         *)
(* Deserialize rebuilds a tree of the same shape with the same depth,      *)
(* direction and value at every node.                                      *)

\* the nodes in the order of their creation
CreationOrder(leaves) ==
    LET RECURSIVE Ascending(_)
        Ascending(rest) ==
            IF rest = {} THEN <<>>
            ELSE LET least == CHOOSE a \in rest : \A b \in rest : a <= b
                 IN  <<least>> \o Ascending(rest \ {least})
    IN  Ascending(leaves)

\* the second run has loaded what the first run wrote
LoadedAgain ==
    pc = "reloaded"

C19_GeneratedRoundTrip ==
    /\ (Generated /\ pc \in {"search", "serialize", "print"}) =>
          /\ Subtree(heap, tree) = Leaves(heap)
          /\ Walk(heap, tree, {}, TRUE) = CreationOrder(Subtree(heap, tree))
    /\ LoadedAgain =>
          /\ out = [i \in 1..Len(out) |-> IntToText(heap[i].mValue)]
          /\ SameTree(heap, original, tree)

\* a generated tree of MaxLeaves nodes, not all of one value, has come back
C19_Witness ==
    /\ LoadedAgain
    /\ Cardinality(Subtree(heap, original)) = MaxLeaves
    /\ Cardinality(Subtree(heap, tree)) = MaxLeaves
    /\ heap[original].mValue # heap[heap[original].mRight].mValue
    /\ heap[heap[original].mLeft].mValue # heap[heap[original].mRight].mValue
    /\ SameTree(heap, original, tree)

----------------------------------------------------------------------------
(* C20.  At every evaluation of the loop condition of Deserialize the      *)
(* queue holds one request more than nodes were created, so it is never    *)
(* empty and the loop ends only when the stream is exhausted; the requests *)
(* are for distinct slots: the first for the caller's root pointer, every  *)
(* other for a child field of a created node that is still empty when the  *)
(* request is taken.                                                       *)

\* the loop condition is about to be evaluated
Deserializing ==
    pc \in {"deserialize", "reload"}

\* the nodes this call of Deserialize created: not the default node of
\* main, nor the tree of an earlier run
CreatedSoFar ==
    Len(heap) - 1 - Cardinality(Subtree(heap, original))

\* the request is for the root pointer before any node exists, or for an
\* empty child field of a node
StillEmpty(request) ==
    IF request.output.node = NULL
    THEN CreatedSoFar = 0
    ELSE /\ request.output.node \in Leaves(heap)
         /\ request.parent = request.output.node
         /\ request.direction = request.output.side
         /\ IF request.output.side = RIGHT
            THEN heap[request.output.node].mRight = NULL
            ELSE heap[request.output.node].mLeft = NULL

C20_PendingSlots ==
    /\ (Deserializing \/ Loaded \/ LoadedAgain) =>
          /\ Len(toPopulate) = CreatedSoFar + 1
          /\ \A i, j \in 1..Len(toPopulate) :
                toPopulate[i].output = toPopulate[j].output => i = j
          /\ \A i \in 1..Len(toPopulate) : StillEmpty(toPopulate[i])
    /\ (Loaded \/ LoadedAgain) => ~stream.good

\* three nodes created, four slots pending, lines left to read
C20_Witness ==
    /\ Deserializing
    /\ stream.good
    /\ CreatedSoFar = 3
    /\ Len(toPopulate) = 4
    /\ heap[tree].mRight # NULL
    /\ heap[tree].mLeft # NULL

====
